---- MODULE Spec2Model ----
(***************************************************************************)
(* A model of file_renamer.py: the name generator (generate_new_name), the *)
(* file collector (collect_files) and the rename pass (rename_files), with *)
(* the part of main that validates the options and reports the result.     *)
(*                                                                         *)
(* Strings are sequences of one-character strings, so that stem/extension  *)
(* splitting, padding and substitution are computed character by           *)
(* character.  A path is the sequence of its components (pathlib's         *)
(* Path.parts), each component a string.  An optional value (Python's      *)
(* None) is a sequence of length 0 or 1.                                   *)
(***************************************************************************)
EXTENDS Integers, Sequences, FiniteSets, TLC

VARIABLES
    rule,       \* the keyword arguments of rename_files (fixed for a behaviour)
    today,      \* the wall-clock day, <<year, month, day>>
    dirs,       \* the directories that exist (a set of paths)
    fs,         \* the regular files that exist: path -> [id, mtime, ctime, birthtime]
    pc,         \* "idle" | "loop" | "done" | "aborted" | "exit1"
    execute,    \* the execute argument of the pass in progress
    files,      \* rename_files' local: the collected, sorted list
    i,          \* 1-based index of the next file of the for loop
    renames,    \* rename_files' local: the list of (old_path, new_path)
    counter,    \* rename_files' local
    warnings,   \* rename_files' local
    report,     \* what main printed last: [heading, total]
    tree0,      \* history: fs when the pass in progress began
    log,        \* history: one record per iteration of the pass in progress
    preview,    \* history: <<>> or <<[tree, plan]>> of the completed dry-run
    gen         \* the call of generate_new_name under SpecGen: [args, result]

vars == <<rule, today, dirs, fs, pc, execute, files, i, renames, counter,
          warnings, report, tree0, log, preview, gen>>

-----------------------------------------------------------------------------
(* Characters and strings                                                  *)

\* ord() of the characters the model uses (ASCII)
Ord(c) ==
    CASE c = "-" -> 45 [] c = "." -> 46 [] c = "/" -> 47
      [] c = "0" -> 48 [] c = "1" -> 49 [] c = "2" -> 50 [] c = "3" -> 51
      [] c = "4" -> 52 [] c = "5" -> 53 [] c = "6" -> 54 [] c = "7" -> 55
      [] c = "8" -> 56 [] c = "9" -> 57 [] c = "_" -> 95
      [] c = "a" -> 97 [] c = "b" -> 98 [] c = "c" -> 99 [] c = "e" -> 101
      [] c = "g" -> 103 [] c = "i" -> 105 [] c = "m" -> 109 [] c = "s" -> 115
      [] c = "t" -> 116 [] c = "v" -> 118 [] c = "x" -> 120

Max(a, b) == IF a >= b THEN a ELSE b

\* s < t in Python's order on str (code points, shorter prefix first)
RECURSIVE StrLess(_, _)
StrLess(s, t) ==
    IF t = <<>> THEN FALSE
    ELSE IF s = <<>> THEN TRUE
    ELSE IF Head(s) = Head(t) THEN StrLess(Tail(s), Tail(t))
    ELSE Ord(Head(s)) < Ord(Head(t))

\* s.startswith(p)
StartsWith(s, p) == Len(p) <= Len(s) /\ SubSeq(s, 1, Len(p)) = p

\* s.endswith(p)
EndsWith(s, p) == Len(p) <= Len(s) /\ SubSeq(s, Len(s) - Len(p) + 1, Len(s)) = p

\* s.rfind(c), 1-based; 0 when c does not occur
RFind(s, c) ==
    LET hits == {k \in 1..Len(s) : s[k] = c}
    IN  IF hits = {} THEN 0 ELSE CHOOSE k \in hits : \A j \in hits : j <= k

DigitChar(d) == <<"0", "1", "2", "3", "4", "5", "6", "7", "8", "9">>[d + 1]

\* the decimal digits of n >= 0
RECURSIVE NatStr(_)
NatStr(n) == IF n < 10 THEN <<DigitChar(n)>> ELSE NatStr(n \div 10) \o <<DigitChar(n % 10)>>

\* str(n) of a Python int
Str(n) == IF n < 0 THEN <<"-">> \o NatStr(-n) ELSE NatStr(n)

\* width - len(s) characters '0'
RECURSIVE Zeros(_)
Zeros(k) == IF k <= 0 THEN <<>> ELSE <<"0">> \o Zeros(k - 1)

\* str.zfill(width): zeros go after a leading sign; never shortens s
Zfill(s, width) ==
    IF Len(s) >= width THEN s
    ELSE IF s # <<>> /\ Head(s) \in {"+", "-"}
         THEN <<Head(s)>> \o Zeros(width - Len(s)) \o Tail(s)
         ELSE Zeros(width - Len(s)) \o s

\* re.sub(search, replace, s) for a pattern that is a literal string (no
\* metacharacter) and a replacement without group reference: every
\* non-overlapping occurrence, leftmost first; the empty pattern matches
\* before every character and at the end.
RECURSIVE re_sub(_, _, _)
re_sub(search, replace, s) ==
    IF search = <<>>
    THEN IF s = <<>> THEN replace
         ELSE replace \o <<Head(s)>> \o re_sub(search, replace, Tail(s))
    ELSE IF s = <<>> THEN <<>>
    ELSE IF StartsWith(s, search)
         THEN replace \o re_sub(search, replace, SubSeq(s, Len(search) + 1, Len(s)))
         ELSE <<Head(s)>> \o re_sub(search, replace, Tail(s))

-----------------------------------------------------------------------------
(* pathlib                                                                 *)

\* Path.name: the last component
PathName(p) == p[Len(p)]

\* Path.parent
PathParent(p) == SubSeq(p, 1, Len(p) - 1)

\* Path.suffix: from the last dot, unless it is the first or last character
PathSuffix(p) ==
    LET name == PathName(p)
        k    == RFind(name, ".")
    IN  IF 1 < k /\ k < Len(name) THEN SubSeq(name, k, Len(name)) ELSE <<>>

\* Path.stem
PathStem(p) ==
    LET name == PathName(p)
        k    == RFind(name, ".")
    IN  IF 1 < k /\ k < Len(name) THEN SubSeq(name, 1, k - 1) ELSE name

\* the components of a string split at "/", empty and "." components dropped
RECURSIVE SplitParts(_, _)
SplitParts(s, cur) ==
    LET flush == IF cur = <<>> \/ cur = <<".">> THEN <<>> ELSE <<cur>>
    IN  IF s = <<>> THEN flush
        ELSE IF Head(s) = "/" THEN flush \o SplitParts(Tail(s), <<>>)
        ELSE SplitParts(Tail(s), Append(cur, Head(s)))

\* parent / name: an absolute name replaces parent
PathJoin(parent, name) ==
    IF name # <<>> /\ Head(name) = "/"
    THEN <<<<"/">>>> \o SplitParts(name, <<>>)
    ELSE parent \o SplitParts(name, <<>>)

\* p < q in pathlib's order: the parts compared as lists of str
RECURSIVE PathLess(_, _)
PathLess(p, q) ==
    IF q = <<>> THEN FALSE
    ELSE IF p = <<>> THEN TRUE
    ELSE IF Head(p) = Head(q) THEN PathLess(Tail(p), Tail(q))
    ELSE StrLess(Head(p), Head(q))

\* sorted(S) for a set of paths
RECURSIVE SortPaths(_)
SortPaths(S) ==
    IF S = {} THEN <<>>
    ELSE LET m == CHOOSE p \in S : \A q \in S \ {p} : PathLess(p, q)
         IN  <<m>> \o SortPaths(S \ {m})

-----------------------------------------------------------------------------
(* The name generator                                                      *)

\* datetime.fromtimestamp(t).strftime("%Y%m%d") of a day t = <<year, month, day>>
FormatDate(t) == Zfill(Str(t[1]), 4) \o Zfill(Str(t[2]), 2) \o Zfill(Str(t[3]), 2)

\* get_file_date: st is file_path.stat() with birthtime an optional field
\* (present on macOS only), now is datetime.now()
get_file_date(st, date_type, now) ==
    LET timestamp ==
            IF date_type = "modified" THEN st.mtime
            ELSE IF date_type = "created"
                 THEN IF st.birthtime # <<>> THEN st.birthtime[1] ELSE st.ctime
                 ELSE now
    IN  FormatDate(timestamp)

\* ApplyNumber with the mode test inverted
ApplyNumberWrongMode(stem, number, number_mode, number_padding) ==
    IF number # <<>>
    THEN LET num_str == Zfill(Str(number[1]), number_padding)
         IN  IF number_mode = "append" THEN num_str
             ELSE stem \o <<"_">> \o num_str
    ELSE stem

\* the numbering step of generate_new_name (lines 85-90)
ApplyNumber(stem, number, number_mode, number_padding) ==
    IF number # <<>>
    THEN LET num_str == Zfill(Str(number[1]), number_padding)
         IN  IF number_mode = "sequential" THEN num_str
             ELSE stem \o <<"_">> \o num_str
    ELSE stem

\* generate_new_name; search, replace and number are optional values
generate_new_name(file_path, prefix, suffix, search, replace, number, number_mode, number_padding, date_type, date_position, st, now) ==
    LET stem0 == PathStem(file_path)
        ext   == PathSuffix(file_path)
        stem1 == IF search # <<>> /\ replace # <<>>
                 THEN re_sub(search[1], replace[1], stem0) ELSE stem0
        stem2 == IF prefix # <<>> THEN prefix \o stem1 ELSE stem1
        stem3 == IF suffix # <<>> THEN stem2 \o suffix ELSE stem2
        stem4 == ApplyNumber(stem3, number, number_mode, number_padding)
        stem5 == IF date_type # "None"
                 THEN LET date_str == get_file_date(st, date_type, now)
                      IN  IF date_position = "prefix"
                          THEN date_str \o <<"_">> \o stem4
                          ELSE stem4 \o <<"_">> \o date_str
                 ELSE stem4
    IN  stem5 \o ext

-----------------------------------------------------------------------------
(* The inputs: rules and directory trees                                   *)

MaxFiles   == 3     \* files in the initial tree
MaxOptions == 2     \* option groups of a rule that differ from their defaults

txt == <<".", "t", "x", "t">>
Root == <<<<"r">>>>
Sub  == <<<<"r">>, <<"s">>>>

\* the files a tree may hold, with their inode number and timestamps
Candidates ==
    {[path |-> Root \o <<<<"a">> \o txt>>,                id |-> 1, mtime |-> <<2024, 3, 5>>,   ctime |-> <<2024, 3, 6>>,  birthtime |-> <<>>],
     [path |-> Root \o <<<<"b">> \o txt>>,                id |-> 2, mtime |-> <<2024, 3, 5>>,   ctime |-> <<2024, 3, 5>>,  birthtime |-> <<<<2023, 12, 31>>>>],
     [path |-> Root \o <<<<"c">> \o txt>>,                id |-> 3, mtime |-> <<2023, 11, 20>>, ctime |-> <<2024, 1, 2>>,  birthtime |-> <<>>],
     [path |-> Root \o <<<<"a", "_", "0", "0", "1">> \o txt>>, id |-> 4, mtime |-> <<2024, 3, 5>>,   ctime |-> <<2024, 3, 5>>,  birthtime |-> <<>>],
     [path |-> Root \o <<<<"a", "b">> \o txt>>,           id |-> 5, mtime |-> <<2024, 3, 5>>,   ctime |-> <<2024, 3, 5>>,  birthtime |-> <<>>],
     [path |-> Root \o <<<<"b", "a">> \o txt>>,           id |-> 6, mtime |-> <<2024, 3, 5>>,   ctime |-> <<2024, 3, 5>>,  birthtime |-> <<>>],
     [path |-> Sub \o <<<<"a">> \o txt>>,                 id |-> 7, mtime |-> <<2024, 3, 5>>,   ctime |-> <<2024, 3, 5>>,  birthtime |-> <<>>]}

\* the tree holding the files of C (a set of candidates)
TreeOf(C) ==
    [p \in {c.path : c \in C} |->
        LET c == CHOOSE d \in C : d.path = p
        IN  [id |-> c.id, mtime |-> c.mtime, ctime |-> c.ctime, birthtime |-> c.birthtime]]

Trees == {TreeOf(C) : C \in {D \in SUBSET Candidates : Cardinality(D) <= MaxFiles}}

\* the defaults of rename_files' keyword arguments (lines 120-131)
PrefixDefault    == [prefix |-> <<>>]
SuffixDefault    == [suffix |-> <<>>]
SearchDefault    == [search |-> <<>>, replace |-> <<>>]
NumberingDefault == [numbering |-> FALSE, number_mode |-> "sequential",
                     number_start |-> 1, number_padding |-> 3]
DateDefault      == [date_type |-> "None", date_position |-> "prefix"]
PatternDefault   == [file_pattern |-> <<"*">>]
RecursiveDefault == [recursive |-> TRUE]

PrefixChoices == {PrefixDefault, [prefix |-> <<"i", "m", "g", "_">>], [prefix |-> <<"s", "/">>]}
SuffixChoices == {SuffixDefault, [suffix |-> <<"_", "v">>]}
SearchChoices ==
    {SearchDefault,
     [search |-> <<<<"a">>>>, replace |-> <<<<>>>>],
     [search |-> <<<<"a">>>>, replace |-> <<<<"b">>>>]}
NumberingChoices ==
    {NumberingDefault,
     [numbering |-> TRUE, number_mode |-> "sequential", number_start |-> 5, number_padding |-> 2],
     [numbering |-> TRUE, number_mode |-> "append", number_start |-> 1, number_padding |-> 3]}
DateChoices ==
    {DateDefault,
     [date_type |-> "modified", date_position |-> "suffix"],
     [date_type |-> "created", date_position |-> "prefix"],
     [date_type |-> "current", date_position |-> "prefix"]}
PatternChoices   == {PatternDefault, [file_pattern |-> <<"*", "b">> \o txt]}
RecursiveChoices == {RecursiveDefault, [recursive |-> FALSE]}

Flag(b) == IF b THEN 1 ELSE 0

Rules ==
    {[prefix |-> p.prefix, suffix |-> s.suffix, search |-> sr.search,
      replace |-> sr.replace, numbering |-> n.numbering,
      number_mode |-> n.number_mode, number_start |-> n.number_start,
      number_padding |-> n.number_padding, date_type |-> d.date_type,
      date_position |-> d.date_position, file_pattern |-> g.file_pattern,
      recursive |-> rc.recursive] :
        <<p, s, sr, n, d, g, rc>> \in
            {t \in PrefixChoices \X SuffixChoices \X SearchChoices \X NumberingChoices
                    \X DateChoices \X PatternChoices \X RecursiveChoices :
                Flag(t[1] # PrefixDefault) + Flag(t[2] # SuffixDefault)
                + Flag(t[3] # SearchDefault) + Flag(t[4] # NumberingDefault)
                + Flag(t[5] # DateDefault) + Flag(t[6] # PatternDefault)
                + Flag(t[7] # RecursiveDefault) <= MaxOptions}}

NoGen == [args |-> <<>>, result |-> <<>>]

-----------------------------------------------------------------------------
(* The file collector                                                      *)

\* fnmatch of a name against a glob "*" followed by literal characters
GlobMatch(name, pattern) == EndsWith(name, Tail(pattern))

\* Path.is_file / Path.exists on the modelled tree
IsFile(p) == p \in DOMAIN fs
Exists(p) == p \in DOMAIN fs \/ p \in dirs

\* collect_files: rglob reaches every descendant, glob the children only
collect_files(root_path, pattern, recursive) ==
    LET found == IF recursive
                 THEN {p \in DOMAIN fs \cup dirs :
                          /\ Len(p) > Len(root_path)
                          /\ SubSeq(p, 1, Len(root_path)) = root_path
                          /\ GlobMatch(PathName(p), pattern)}
                 ELSE {p \in DOMAIN fs \cup dirs :
                          /\ PathParent(p) = root_path
                          /\ GlobMatch(PathName(p), pattern)}
    IN  SortPaths({f \in found : IsFile(f)})

-----------------------------------------------------------------------------------------------------------------------------------------------------
(* The rename pass                                                         *)

Init ==
    /\ rule \in Rules
    /\ today = <<2024, 7, 9>>
    /\ dirs = {Root, Sub}
    /\ fs \in Trees
    /\ pc = "idle"
    /\ execute = FALSE
    /\ files = <<>>
    /\ i = 1
    /\ renames = <<>>
    /\ counter = 0
    /\ warnings = <<>>
    /\ report = [heading |-> "", total |-> 0]
    /\ tree0 = fs
    /\ log = <<>>
    /\ preview = <<>>
    /\ gen = NoGen

\* any([args.prefix, args.suffix, args.search, args.number, args.date]) (line 312)
AnyOption(r) ==
    \/ r.prefix # <<>>
    \/ r.suffix # <<>>
    \/ (r.search # <<>> /\ r.search[1] # <<>>)
    \/ r.numbering
    \/ r.date_type # "None"

\* main, lines 311-314: no rename option given, exit status 1
main_usage_error ==
    /\ pc = "idle"
    /\ ~AnyOption(rule)
    /\ pc' = "exit1"
    /\ report' = [heading |-> "Error: No rename options specified", total |-> 0]
    /\ UNCHANGED <<rule, today, dirs, fs, execute, files, i, renames, counter,
                   warnings, tree0, log, preview, gen>>

\* A pass may start on the initial tree, in either mode, and once more with
\* execute set after a completed dry-run (the preview, then the same
\* command line with --execute, as main's last message suggests).
CanStart(ex) == pc = "idle" \/ (pc = "done" /\ ~execute /\ ex)

\* rename_files, lines 138-142
rename_files_begin(ex) ==
    /\ CanStart(ex)
    /\ pc' = "loop"
    /\ execute' = ex
    /\ files' = collect_files(Root, rule.file_pattern, rule.recursive)
    /\ i' = 1
    /\ renames' = <<>>
    /\ counter' = rule.number_start
    /\ warnings' = <<>>
    /\ tree0' = fs
    /\ log' = <<>>
    /\ UNCHANGED <<rule, today, dirs, fs, report, preview, gen>>

\* line 147
NumberArg(numbering, c) == IF numbering THEN <<c>> ELSE <<>>

\* Planned without the test of line 165
PlannedAlways(plan, fp, np) == Append(plan, <<fp, np>>)

\* Planned with the append moved after the conflict test of line 170
PlannedUnlessSkipped(plan, fp, np) ==
    IF np # fp /\ ~(execute /\ Exists(np)) THEN Append(plan, <<fp, np>>) ELSE plan

\* lines 165-166: only a name that changes enters the plan
Planned(plan, fp, np) == IF np # fp THEN Append(plan, <<fp, np>>) ELSE plan

\* Applies without the test of line 168
AppliesAlways(changes, ex) == changes

\* line 168: the filesystem is touched in execute mode only
Applies(changes, ex) == changes /\ ex

\* Conflict without the existence test
ConflictNever(np, fp) == FALSE

\* Conflict tested against the tree as it was collected, not as it is now
ConflictAtStart(np, fp) == (np \in DOMAIN tree0 \/ np \in dirs) /\ np # fp

\* line 170
Conflict(np, fp) == Exists(np) /\ np # fp

\* lines 175-176
NextCounter(numbering, c) == IF numbering THEN c + 1 ELSE c

\* os.rename(src, dst) can succeed: src exists and dst's directory exists
RenamePossible(src, dst) == src \in DOMAIN fs /\ Len(dst) > 1 /\ PathParent(dst) \in dirs

\* the tree after os.rename(src, dst): the file leaves src and is dst
Renamed(tree, src, dst) ==
    [p \in (DOMAIN tree \ {src}) \cup {dst} |-> IF p = dst THEN tree[src] ELSE tree[p]]

\* TreeOnRaise of a pass that undoes its renames when one fails
TreeRolledBack(tree, start) == start

\* line 173 is in no try block: an OSError leaves rename_files at once,
\* with the tree as the earlier iterations left it
TreeOnRaise(tree, start) == tree

\* One iteration of the for loop (lines 144-176).  ok: the host lets
\* os.rename succeed (it may refuse for a reason the tree does not show:
\* permissions, a read-only or full volume).
step(ok) ==
    /\ pc = "loop"
    /\ i <= Len(files)
    /\ LET file_path == files[i]
           number    == NumberArg(rule.numbering, counter)
           new_name  ==
               generate_new_name(file_path, rule.prefix, rule.suffix, rule.search,
                                 rule.replace, number, rule.number_mode,
                                 rule.number_padding, rule.date_type,
                                 rule.date_position, fs[file_path], today)
           new_path  == PathJoin(PathParent(file_path), new_name)
           entry(outcome) ==
               [file |-> file_path, number |-> number, new_name |-> new_name,
                new_path |-> new_path, target_exists |-> Exists(new_path), outcome |-> outcome]
       IN  /\ renames' = Planned(renames, file_path, new_path)
           /\ IF Applies(new_path # file_path, execute)
              THEN IF Conflict(new_path, file_path)
                   THEN \* lines 171-172: warn and continue
                        /\ ok
                        /\ warnings' = Append(warnings,
                               [name |-> PathName(file_path), target |-> new_name])
                        /\ log' = Append(log, entry("skipped"))
                        /\ i' = i + 1
                        /\ UNCHANGED <<fs, pc, counter, report>>
                   ELSE IF ok /\ RenamePossible(file_path, new_path)
                   THEN \* line 173, then lines 175-176
                        /\ fs' = Renamed(fs, file_path, new_path)
                        /\ log' = Append(log, entry("renamed"))
                        /\ counter' = NextCounter(rule.numbering, counter)
                        /\ i' = i + 1
                        /\ UNCHANGED <<pc, warnings, report>>
                   ELSE \* line 173 raises
                        /\ ~ok
                        /\ fs' = TreeOnRaise(fs, tree0)
                        /\ log' = Append(log, entry("raised"))
                        /\ pc' = "aborted"
                        /\ report' = [heading |-> "Traceback", total |-> 0]
                        /\ UNCHANGED <<i, counter, warnings>>
              ELSE \* lines 175-176
                   /\ ok
                   /\ log' = Append(log, entry(IF new_path # file_path
                                               THEN "planned" ELSE "unchanged"))
                   /\ counter' = NextCounter(rule.numbering, counter)
                   /\ i' = i + 1
                   /\ UNCHANGED <<fs, pc, warnings, report>>
    /\ UNCHANGED <<rule, today, dirs, execute, files, tree0, preview, gen>>

\* main's report of the returned list (lines 334-356)
main_report(returned, ex) ==
    IF returned = <<>> THEN [heading |-> "No files to rename.", total |-> 0]
    ELSE [heading |-> IF ex THEN "RENAMED" ELSE "PREVIEW (use --execute to apply)",
          total |-> Len(returned)]

\* the loop is over: lines 178-184, then main prints the result
rename_files_return ==
    /\ pc = "loop"
    /\ i > Len(files)
    /\ pc' = "done"
    /\ report' = main_report(renames, execute)
    /\ preview' = IF execute THEN preview ELSE <<[tree |-> tree0, plan |-> renames]>>
    /\ UNCHANGED <<rule, today, dirs, fs, execute, files, i, renames, counter,
                   warnings, tree0, log, gen>>

Next ==
    \/ main_usage_error
    \/ \E ex \in BOOLEAN : rename_files_begin(ex)
    \/ \E ok \in BOOLEAN : step(ok)
    \/ rename_files_return

Spec == Init /\ [][Next]_vars

-----------------------------------------------------------------------------
(* generate_new_name alone: one call, its arguments drawn from GenArgs     *)

GenFiles ==
    {Root \o <<<<"a">> \o txt>>, Root \o <<<<"b">> \o txt>>, Root \o <<<<"c">> \o txt>>,
     Root \o <<<<".", "a">>>>, Root \o <<<<"a", "b">>>>, Root \o <<<<"a", ".", "b", ".">>>>}

GenStats ==
    {[id |-> 1, mtime |-> <<2024, 3, 5>>, ctime |-> <<2024, 3, 6>>, birthtime |-> <<>>],
     [id |-> 2, mtime |-> <<2024, 3, 5>>, ctime |-> <<2024, 3, 5>>, birthtime |-> <<<<2023, 12, 31>>>>]}

GenSearch ==
    {SearchDefault,
     [search |-> <<<<"a">>>>, replace |-> <<>>],
     [search |-> <<<<"a">>>>, replace |-> <<<<"b">>>>],
     [search |-> <<<<>>>>, replace |-> <<<<"-">>>>]}

GenArgs ==
    [file_path : GenFiles,
     prefix : {<<>>, <<"i", "m", "g", "_">>},
     suffix : {<<>>, <<"_", "v">>},
     sr : GenSearch,
     number : {<<>>, <<-5>>, <<1>>, <<2>>, <<3>>, <<5>>, <<6>>, <<7>>, <<100>>, <<1234>>},
     number_mode : {"sequential", "append"},
     number_padding : {0, 2, 3},
     date : DateChoices,
     st : GenStats]

InitGen ==
    /\ gen \in {[args |-> <<a>>, result |-> <<>>] : a \in GenArgs}
    /\ rule = [prefix |-> <<>>]
    /\ today = <<2024, 7, 9>>
    /\ dirs = {Root}
    /\ fs = <<>>
    /\ pc = "gen"
    /\ execute = FALSE
    /\ files = <<>>
    /\ i = 1
    /\ renames = <<>>
    /\ counter = 0
    /\ warnings = <<>>
    /\ report = [heading |-> "", total |-> 0]
    /\ tree0 = <<>>
    /\ log = <<>>
    /\ preview = <<>>

\* the call returns
gen_call ==
    /\ pc = "gen"
    /\ gen.result = <<>>
    /\ LET a == gen.args[1]
       IN  gen' = [gen EXCEPT !.result =
                <<generate_new_name(a.file_path, a.prefix, a.suffix, a.sr.search,
                                    a.sr.replace, a.number, a.number_mode,
                                    a.number_padding, a.date.date_type,
                                    a.date.date_position, a.st, today)>>]
    /\ UNCHANGED <<rule, today, dirs, fs, pc, execute, files, i, renames, counter,
                   warnings, report, tree0, log, preview>>

NextGen == gen_call

SpecGen == InitGen /\ [][NextGen]_vars

-----------------------------------------------------------------------------
(* Properties of the rename pass (under Spec)                              *)

LogIdx == 1..Len(log)

\* the iterations of the pass in progress that ended with the given outcome
With(outcome) == {k \in LogIdx : log[k].outcome = outcome}

\* the inode numbers of the files of a tree
Ids(tree) == {tree[p].id : p \in DOMAIN tree}

InPass == pc \in {"loop", "done", "aborted"}

\* C1: in dry-run mode the pass changes nothing: whatever the rule and the
\* tree, the existing paths and the file each one names are, during and
\* after the pass, those the pass began with.
C1_DryRunLeavesTree == (InPass /\ ~execute) => (fs = tree0 /\ With("renamed") = {})

C1_Witness ==
    /\ pc = "done" /\ ~execute
    /\ Len(renames) >= 2
    /\ fs = tree0

\* C2: in execute mode, a file whose new path differs from its path and
\* whose target exists when it is processed is skipped: it keeps its name
\* (it is still there, the same file, for the rest of the pass), the
\* warnings are exactly one per skipped file, in order, and the pass goes on
\* (a skip never ends it; a completed pass has iterated every file).  A file
\* whose target does not exist is renamed at once (the file is then at its
\* new path), unless os.rename itself fails.
C2_ConflictSkipsOneFile ==
    (InPass /\ execute) =>
        /\ \A k \in LogIdx :
              LET e == log[k]
              IN  /\ e.file = files[k]
                  /\ (e.new_path # e.file /\ e.target_exists) =>
                        /\ e.outcome = "skipped"
                        /\ e.file \in DOMAIN fs
                        /\ fs[e.file] = tree0[e.file]
                        /\ (pc = "aborted" => k < Len(log))
                  /\ (e.new_path # e.file /\ ~e.target_exists) =>
                        /\ e.outcome \in {"renamed", "raised"}
                        /\ e.outcome = "renamed" =>
                              /\ e.new_path \in DOMAIN fs
                              /\ fs[e.new_path].id = tree0[e.file].id
        /\ Len(warnings) = Cardinality(With("skipped"))
        /\ \E f \in [1..Len(warnings) -> With("skipped")] :
              /\ \A a, b \in 1..Len(warnings) : a < b => f[a] < f[b]
              /\ \A a \in 1..Len(warnings) :
                    /\ warnings[a].name = PathName(log[f[a]].file)
                    /\ warnings[a].target = log[f[a]].new_name
        /\ pc = "loop" => Len(log) = i - 1
        /\ pc = "done" => Len(log) = Len(files)

\* two files with one target that did not exist: the first is renamed, the
\* second skipped, and the file after them is still processed
C2_Witness ==
    /\ pc = "done" /\ execute
    /\ \E j, k \in LogIdx :
          /\ j < k /\ k < Len(log)
          /\ log[j].outcome = "renamed"
          /\ log[k].outcome = "skipped"
          /\ log[j].new_path = log[k].new_path
          /\ log[k].new_path \notin DOMAIN tree0
          /\ log[k].file \in DOMAIN fs

\* C3: with numbering enabled, in either mode, the number handed to
\* generate_new_name for the k-th file of the list is number_start + k - 1,
\* whatever happened to the files before it.
C3_CounterAdvancesPerFile ==
    rule.numbering => \A k \in LogIdx : log[k].number = <<rule.number_start + k - 1>>

\* C4: the list a dry-run returns and the list an execute pass returns, both
\* started from the same tree with the same rule, are equal.
C4_DryRunPlanIsExecutePlan ==
    (pc = "done" /\ execute /\ preview # <<>> /\ preview[1].tree = tree0)
        => renames = preview[1].plan

\* C5: every pair of the plan, and every rename performed, keeps the file in
\* its directory: the parent of the new path is the parent of the old one.
C5_SameDirectory ==
    /\ \A k \in 1..Len(renames) : PathParent(renames[k][2]) = PathParent(renames[k][1])
    /\ \A k \in With("renamed") : PathParent(log[k].new_path) = PathParent(log[k].file)

\* the iterated files whose computed path differs, in order, as pairs
ChangedPairs ==
    LET pairs == [k \in LogIdx |-> <<log[k].file, log[k].new_path>>]
        Differs(pr) == pr[1] # pr[2]
    IN  SelectSeq(pairs, Differs)

NoOptionConfigured ==
    /\ rule.prefix = <<>> /\ rule.suffix = <<>>
    /\ rule.search = <<>> /\ rule.replace = <<>>
    /\ ~rule.numbering
    /\ rule.date_type = "None"

\* C6: the plan holds an entry for a file of the list exactly when its
\* computed path differs from its path; with no option configured,
\* generate_new_name returns every file's own name and the plan is empty.
C6_PlanIffNameChanges ==
    InPass =>
        /\ renames = ChangedPairs
        /\ NoOptionConfigured =>
              /\ \A k \in LogIdx : log[k].new_name = PathName(log[k].file)
              /\ renames = <<>>

\* a completed pass with a file left out of the plan and a file in it
C6_Witness ==
    /\ pc = "done"
    /\ With("unchanged") # {}
    /\ With("planned") \cup With("renamed") # {}
    /\ Len(renames) < Len(files)

\* C8: when os.rename fails the pass ends there: the failing file is the
\* last one iterated and no file is processed after it, every rename of an
\* earlier file stays applied, and the failing file and the files after it
\* in the list are still at their paths.
C8_FailureAbortsAndKeepsEarlier ==
    \A k \in With("raised") :
        /\ pc = "aborted"
        /\ k = Len(log) /\ k = i
        /\ \A j \in With("renamed") :
              /\ log[j].new_path \in DOMAIN fs
              /\ fs[log[j].new_path].id = tree0[log[j].file].id
        /\ \A m \in i..Len(files) :
              /\ files[m] \in DOMAIN fs
              /\ fs[files[m]].id = tree0[files[m]].id

\* the second or a later rename fails, with a file still to come
C8_Witness ==
    /\ pc = "aborted"
    /\ With("renamed") # {}
    /\ i < Len(files)
    /\ fs # tree0

\* C9: in execute mode every rename goes to a path that does not exist at
\* that moment, so no file is overwritten (the files after the pass are the
\* files before it, as many), and no file is renamed twice.
C9_NeverOverwrites ==
    (InPass /\ execute) =>
        /\ \A k \in With("renamed") : ~log[k].target_exists
        /\ Ids(fs) = Ids(tree0)
        /\ Cardinality(DOMAIN fs) = Cardinality(DOMAIN tree0)
        /\ \A j, k \in With("renamed") :
              j < k => (log[k].file # log[j].file /\ log[k].file # log[j].new_path)

\* a file is renamed and another, whose target is a file of the tree, is not
C9_Witness ==
    /\ pc = "done" /\ execute
    /\ With("renamed") # {}
    /\ \E k \in With("skipped") : log[k].new_path \in DOMAIN tree0

\* C10: the list an execute pass returns holds an entry for every file
\* whose computed path differs, the skipped ones included: when the pass
\* completes, its length is the number of renames performed plus the number
\* of warnings, and that length is the total main prints under RENAMED.
C10_ReturnedCountsSkipped ==
    (pc = "done" /\ execute) =>
        /\ Len(renames) = Cardinality(With("renamed")) + Len(warnings)
        /\ \A k \in With("skipped") :
              \E m \in 1..Len(renames) : renames[m] = <<log[k].file, log[k].new_path>>
        /\ report = IF renames = <<>>
                    THEN [heading |-> "No files to rename.", total |-> 0]
                    ELSE [heading |-> "RENAMED", total |-> Len(renames)]

C10_Witness ==
    /\ pc = "done" /\ execute
    /\ Len(warnings) >= 1
    /\ With("renamed") # {}
    /\ report.total = Len(renames)
    /\ report.total > Cardinality(With("renamed"))

-----------------------------------------------------------------------------
(* Properties of generate_new_name (under SpecGen)                         *)

Digits == {"0", "1", "2", "3", "4", "5", "6", "7", "8", "9"}

\* the number a string of decimal digits denotes
RECURSIVE DecValue(_)
DecValue(s) ==
    IF s = <<>> THEN 0
    ELSE 10 * DecValue(SubSeq(s, 1, Len(s) - 1)) + (Ord(s[Len(s)]) - Ord("0"))

\* s is n in decimal, filled with zeros on the left of its digits up to
\* width characters and never cut (a negative n keeps its sign in front)
IsZeroPadded(s, n, width) ==
    LET body == IF n < 0 THEN Tail(s) ELSE s
    IN  /\ s # <<>>
        /\ n < 0 => Head(s) = "-"
        /\ body # <<>>
        /\ \A k \in 1..Len(body) : body[k] \in Digits
        /\ DecValue(body) = (IF n < 0 THEN -n ELSE n)
        /\ Len(s) = Max(width, Len(Str(n)))

\* the stem after search/replace, prefix and suffix, in that order
AffixedStem(a) ==
    LET stem == PathStem(a.file_path)
        sub  == IF a.sr.search # <<>> /\ a.sr.replace # <<>>
                THEN re_sub(a.sr.search[1], a.sr.replace[1], stem) ELSE stem
    IN  a.prefix \o sub \o a.suffix

\* the result without its date part and its extension; <<>> if the result
\* has not the shape date_ ... ext (or ... _date ext)
Core(a, res) ==
    LET ext   == PathSuffix(a.file_path)
        date  == IF a.date.date_type = "None" THEN <<>>
                 ELSE get_file_date(a.st, a.date.date_type, today)
        front == IF a.date.date_type # "None" /\ a.date.date_position = "prefix"
                 THEN date \o <<"_">> ELSE <<>>
        back  == (IF a.date.date_type # "None" /\ a.date.date_position # "prefix"
                  THEN <<"_">> \o date ELSE <<>>) \o ext
    IN  IF StartsWith(res, front) /\ EndsWith(res, back)
           /\ Len(front) + Len(back) <= Len(res)
        THEN <<SubSeq(res, Len(front) + 1, Len(res) - Len(back))>>
        ELSE <<>>

GenExample(name, number, mode, padding, prefix) ==
    /\ gen.args[1].file_path = Root \o <<name \o txt>>
    /\ gen.args[1].number = <<number>>
    /\ gen.args[1].number_mode = mode
    /\ gen.args[1].number_padding = padding
    /\ gen.args[1].prefix = prefix
    /\ gen.args[1].suffix = <<>>
    /\ gen.args[1].sr = SearchDefault
    /\ gen.args[1].date = DateDefault

\* C7: the result is the date part (if any) around a core, then the
\* unchanged extension.  Without numbering the core is the stem after
\* search/replace, prefix, suffix; in sequential mode it is the zero-padded
\* counter alone, whatever the prefix, suffix and search/replace; in append
\* mode it is that stem, an underscore and the zero-padded counter.  The
\* counter is in decimal, filled with zeros to the width, never cut.
\* a.txt, b.txt, c.txt give 05, 06, 07 (sequential from 5, width 2) and
\* img_a_001.txt, img_b_002.txt, img_c_003.txt (append from 1, width 3).
C7_StepsInFixedOrder ==
    gen.result # <<>> =>
        LET a    == gen.args[1]
            res  == gen.result[1]
            core == Core(a, res)
            base == AffixedStem(a)
        IN  /\ core # <<>>
            /\ a.number = <<>> => core[1] = base
            /\ (a.number # <<>> /\ a.number_mode = "sequential") =>
                  IsZeroPadded(core[1], a.number[1], a.number_padding)
            /\ (a.number # <<>> /\ a.number_mode = "append") =>
                  /\ StartsWith(core[1], base \o <<"_">>)
                  /\ IsZeroPadded(SubSeq(core[1], Len(base) + 2, Len(core[1])),
                                  a.number[1], a.number_padding)
            /\ GenExample(<<"a">>, 5, "sequential", 2, <<>>) => res = <<"0", "5">> \o txt
            /\ GenExample(<<"b">>, 6, "sequential", 2, <<>>) => res = <<"0", "6">> \o txt
            /\ GenExample(<<"c">>, 7, "sequential", 2, <<>>) => res = <<"0", "7">> \o txt
            /\ GenExample(<<"a">>, 1, "append", 3, <<"i", "m", "g", "_">>)
                  => res = <<"i", "m", "g", "_", "a", "_", "0", "0", "1">> \o txt
            /\ GenExample(<<"b">>, 2, "append", 3, <<"i", "m", "g", "_">>)
                  => res = <<"i", "m", "g", "_", "b", "_", "0", "0", "2">> \o txt
            /\ GenExample(<<"c">>, 3, "append", 3, <<"i", "m", "g", "_">>)
                  => res = <<"i", "m", "g", "_", "c", "_", "0", "0", "3">> \o txt

\* sequential numbering with a prefix, a suffix, a substitution and a date
\* configured, and a counter longer than the width
C7_Witness ==
    /\ gen.result # <<>>
    /\ gen.args[1].file_path = Root \o <<<<"a">> \o txt>>
    /\ gen.args[1].prefix # <<>> /\ gen.args[1].suffix # <<>>
    /\ gen.args[1].sr.replace # <<>>
    /\ gen.args[1].number = <<1234>>
    /\ gen.args[1].number_mode = "sequential"
    /\ gen.args[1].number_padding = 2
    /\ gen.args[1].date.date_type = "modified"
    /\ gen.result[1] = <<"1", "2", "3", "4", "_", "2", "0", "2", "4", "0", "3", "0", "5">> \o txt

====
